---- MODULE Spec2Model ----
(***************************************************************************)
(* Model of saltfactories.factories.daemons.container.ContainerFactory:    *)
(* the start / terminate lifecycle of one container factory, the docker    *)
(* backend it talks to, the port probe and the registered callbacks.       *)
(*                                                                         *)
(* One ContainerFactory instance is modelled, used by a single thread.     *)
(* Every backend call (containers.run, containers.get, logs, remove+wait,  *)
(* ping) is its own step, so the container can change between two calls.   *)
(* The clock `now` is time.time() measured from current_start_time, in     *)
(* ticks; start_running_timeout is then the timeout itself.                *)
(***************************************************************************)
EXTENDS Integers, Sequences, FiniteSets, TLC

\* ---------------------------------------------------------------- bounds
MaxPorts == 2        \* a check_ports list that is not empty holds the ports 1..MaxPorts
MaxAttempts == 2     \* max_start_attempts (attribute and per-call override) is at most this
MaxTimeout == 1      \* start_timeout (attribute and per-call override) is at most this, in ticks
MaxCallbacks == 2    \* callbacks registered on the factory, over the four lists
MaxExit == 2         \* exit codes of a command run in the container are 0..MaxExit

\* ---------------------------------------------------------------- values
None == "None"

\* self.container is None
NoContainer == [id |-> 0, status |-> None]

\* an entry (callback, args, kwargs) of a callback list. What it was registered with is
\* not kept in the state: every call of it draws anew whether the callback raises and
\* what its positional args are, which allows every behaviour of every registration.
Callback == "callback"

\* positional args of a registered callback: none, all str, or holding a non-str object
ArgsKinds == {<<>>, <<"str">>, <<"obj">>}

\* one call of a callback: does it raise, and the args it was registered with
CallInputs == [raises : BOOLEAN, args : ArgsKinds]

\* container.logs(stdout=True, stderr=True, stream=False): bytes, or a (bytes, bytes) pair
LogsResults == {<<"b:out">>, <<"b:out", "b:err">>}

\* bytes.decode()
decode(b) ==
    CASE b = "b:" -> ""
      [] b = "b:out" -> "out"
      [] b = "b:err" -> "err"
      [] OTHER -> "?"

PingFalseReason == "The docker client failed to get a ping response from the docker daemon"
PingErrorReason == "The docker client failed to ping the docker server"

Min(a, b) == IF a <= b THEN a ELSE b

VARIABLES
    \* ContainerFactory attributes
    check_ports, max_start_attempts, start_timeout,
    before_start_callbacks, after_start_callbacks,
    before_terminate_callbacks, after_terminate_callbacks,
    container,
    \* the process-wide atexit registry: is self.terminate registered
    atexit_registered,
    \* the docker backend: the container that carries self.name
    rtStatus, rtId, liveStatus,
    \* control: position of the running method, who called terminate, results
    pc, termCaller, lastOp, outcome,
    \* locals of start
    factory_started, connectable, start_attempts, timeout, current_attempt, now, pending,
    \* locals of terminate
    stdout, stderr, t_container, t_exc,
    \* run: what container.exec_run returns, and what run has returned
    exec_ret, run_result,
    \* history of the current call, read only by the properties
    obs

cfgVars == <<check_ports, max_start_attempts, start_timeout, liveStatus>>
cbVars == <<before_start_callbacks, after_start_callbacks,
            before_terminate_callbacks, after_terminate_callbacks>>
rtVars == <<rtStatus, rtId>>
runVars == <<exec_ret, run_result>>
startLocals == <<factory_started, connectable, start_attempts, timeout, current_attempt,
                 now, pending>>
termLocals == <<stdout, stderr, t_container, t_exc>>
vars == <<cfgVars, runVars, cbVars, container, atexit_registered, rtVars, pc, termCaller, lastOp,
          outcome, startLocals, termLocals, obs>>

\* ---------------------------------------------------------------- helpers
\* `x or y` on an optional number: None and 0 both fall through to y
Or(x, y) == IF x = 0 THEN y ELSE x

Range(s) == {s[i] : i \in 1..Len(s)}

\* the check_ports attribute: None (unset), the empty list, or the list of MaxPorts ports
CheckPortsChoices ==
    {[isNone |-> TRUE, list |-> <<>>]} \cup
    {[isNone |-> FALSE, list |-> [i \in 1..n |-> i]] : n \in {0, MaxPorts}}

\* get_check_ports: self.check_ports or []
get_check_ports(cp) == IF cp.isNone \/ cp.list = <<>> THEN <<>> ELSE cp.list

\* a handle that is always a live view of its container
HandleStatus_Live(h) ==
    IF rtStatus # "absent" /\ rtId = h.id THEN rtStatus ELSE "dead"

\* the status a handle reports: the snapshot taken when the handle was fetched, or,
\* for a backend whose handles are live views, the container's status now
HandleStatus(h) ==
    IF liveStatus
    THEN IF rtStatus # "absent" /\ rtId = h.id THEN rtStatus ELSE "dead"
    ELSE h.status

\* is_running: self.container.status == "running"
is_running == HandleStatus(container) = "running"

\* does the backend still have a container with this id
Exists(id) == rtStatus # "absent" /\ rtId = id

\* the id of a new container. The step that creates a container stores its handle in
\* self.container, and terminate's local handle lives only inside terminate, so no
\* handle to an earlier container is left once a new one exists: one id tells the
\* container apart from "no container".
FreshId == 1

\* _format_callback, lines 86-93: ", ".join(args) raises TypeError on an argument that
\* is no str
_format_callback(args) ==
    IF \A i \in 1..Len(args) : args[i] = "str" THEN "formatted" ELSE "TypeError"

\* lines 111-119: try: callback(*args, **kwargs); except Exception: log.info(...,
\* self._format_callback(callback, args, kwargs), exc). The callback returns, or its
\* exception is logged, or formatting the log message raises in the handler.
CallOutcome(call) ==
    IF ~call.raises THEN "returns"
    ELSE IF _format_callback(call.args) = "TypeError" THEN "TypeError"
    ELSE "logged"

\* for callback, args, kwargs in callbacks: ..., calls[i] being the call of callback i.
\* The loop stops at the first callback whose handler raises; `ran` counts the callbacks
\* called, `logged` says that an exception was logged and passed over.
RunCallbacks(cbs, calls) ==
    LET bad == {i \in 1..Len(cbs) : CallOutcome(calls[i]) = "TypeError"}
        first == IF bad = {} THEN 0 ELSE CHOOSE i \in bad : \A j \in bad : i <= j
        ran == IF bad = {} THEN Len(cbs) ELSE first
    IN [crashed |-> bad # {},
        ran |-> ran,
        logged |-> \E i \in 1..ran : CallOutcome(calls[i]) = "logged"]

\* everything one pass over a callback list can do, over all calls of its callbacks
CallbackRuns(cbs) ==
    {RunCallbacks(cbs, calls) : calls \in [1..Len(cbs) -> CallInputs]}

Outcome(kind, att, so, se, ec, msg) ==
    [kind |-> kind, attempts |-> att, stdout |-> so, stderr |-> se, exitcode |-> ec,
     msg |-> msg]

NoOutcome == Outcome("none", 0, None, None, -1, "")

\* an exception leaving the running method
Raised(kind) == Outcome(kind, 0, None, None, -1, "")

\* history of one call, all cleared:
\*   configured    the attempts count of this start call (line 126)
\*   reason        what client_connectable answered when it was not True
\*   pings, creates, failed   pings sent, containers.run calls, attempts that ended unready
\*   probed        get_connectable_ports was called
\*   sawRunning, portsSeen    in the current attempt: is_running() held at line 157; the
\*                 ports the probe reported in the current run_start_checks call
\*   captured      a terminate of this call read the container's logs
\*   started       start returned True and terminate was not called since
\*   termBackend, termHeld, termReturned, afterRan   the latest terminate: it called the
\*                 backend; the id of the existing container it held a handle to when
\*                 called (0: none); it returned; it called all after-terminate callbacks
\*   again         this terminate call directly follows a terminate call that returned
\*   beforeStartRan, afterStartRan   this start call has called all callbacks of the
\*                 list ("all"), has left the list early ("notall"), or has not come
\*                 to the list ("na")
NoObs ==
    [configured |-> 0, reason |-> None,
     pings |-> 0, creates |-> 0, failed |-> 0, probed |-> FALSE, portsSeen |-> {},
     sawRunning |-> FALSE, captured |-> FALSE, started |-> FALSE, termBackend |-> FALSE,
     termHeld |-> 0, termReturned |-> FALSE, afterRan |-> "na", again |-> FALSE,
     beforeStartRan |-> "na", afterStartRan |-> "na"]

NumCallbacks ==
    Len(before_start_callbacks) + Len(after_start_callbacks)
    + Len(before_terminate_callbacks) + Len(after_terminate_callbacks)

\* a stream of a command's output as exec_run(demux=True) hands it over: None or bytes
Streams == {None, "b:", "b:out", "b:err"}

\* container.exec_run(cmd, demux=True): ExecResult(exit_code, output), output being None
\* or the pair (stdout, stderr)
ExecResults ==
    {[exit_code |-> c, hasOutput |-> FALSE, out |-> None, err |-> None] : c \in 0..MaxExit}
    \cup [exit_code : 0..MaxExit, hasOutput : {TRUE}, out : Streams, err : Streams]

\* no command was run
NoExec == [exit_code |-> 0, hasOutput |-> FALSE, out |-> None, err |-> None]
NoResult == [kind |-> "none", exitcode |-> 0, stdout |-> None, stderr |-> None]

\* run with a missing stream decoded as if it were empty bytes
run_AbsentAsEmpty(ret) ==
    [kind |-> "ProcessResult",
     exitcode |-> ret.exit_code,
     stdout |-> IF ret.hasOutput /\ ret.out # None THEN decode(ret.out) ELSE "",
     stderr |-> IF ret.hasOutput /\ ret.err # None THEN decode(ret.err) ELSE ""]

\* run, lines 273-281: exitcode = ret.exit_code; stdout = stderr = None;
\* if ret.output: stdout, stderr = ret.output; each is decoded if it is not None
run(ret) ==
    LET out0 == IF ret.hasOutput THEN ret.out ELSE None
        err0 == IF ret.hasOutput THEN ret.err ELSE None
    IN [kind |-> "ProcessResult",
        exitcode |-> ret.exit_code,
        stdout |-> IF out0 # None THEN decode(out0) ELSE None,
        stderr |-> IF err0 # None THEN decode(err0) ELSE None]

\* ---------------------------------------------------------------- initial state
\* __attrs_post_init__: a factory with no container, no callback, nothing registered
FreshFactory ==
    /\ check_ports \in CheckPortsChoices
    /\ max_start_attempts = MaxAttempts
    /\ start_timeout = MaxTimeout
    /\ liveStatus \in BOOLEAN
    /\ before_start_callbacks = <<>>
    /\ after_start_callbacks = <<>>
    /\ before_terminate_callbacks = <<>>
    /\ after_terminate_callbacks = <<>>
    /\ container = NoContainer
    /\ atexit_registered = FALSE
    /\ rtStatus = "absent"
    /\ rtId = 0
    /\ pc = "idle"
    /\ termCaller = "none"
    /\ lastOp = "none"
    /\ outcome = NoOutcome
    /\ factory_started = FALSE
    /\ connectable = None
    /\ start_attempts = 0
    /\ timeout = 0
    /\ current_attempt = 0
    /\ now = 0
    /\ pending = {}
    /\ stdout = None
    /\ stderr = None
    /\ t_container = NoContainer
    /\ t_exc = None
    /\ obs = NoObs

Init ==
    /\ FreshFactory
    /\ exec_ret = NoExec
    /\ run_result = NoResult

ResetStartLocals ==
    /\ factory_started' = FALSE
    /\ connectable' = None
    /\ start_attempts' = 0
    /\ timeout' = 0
    /\ current_attempt' = 0
    /\ now' = 0
    /\ pending' = {}

ResetTermLocals ==
    /\ stdout' = None
    /\ stderr' = None
    /\ t_container' = NoContainer
    /\ t_exc' = None

\* the running method ends, by return or by an exception, with result o
EndOp(o) ==
    /\ pc' = "idle"
    /\ termCaller' = "none"
    /\ outcome' = o
    /\ ResetStartLocals
    /\ ResetTermLocals

\* ---------------------------------------------------------------- callbacks
\* register_before_start_callback
RegisterBeforeStart ==
    /\ pc = "idle"
    /\ NumCallbacks < MaxCallbacks
    /\ before_start_callbacks' = Append(before_start_callbacks, Callback)
    /\ UNCHANGED <<cfgVars, runVars, after_start_callbacks, before_terminate_callbacks,
                   after_terminate_callbacks, container, atexit_registered, rtVars, pc,
                   termCaller, lastOp, outcome, startLocals, termLocals, obs>>

\* register_before_terminate_callback
RegisterBeforeTerminate ==
    /\ pc = "idle"
    /\ NumCallbacks < MaxCallbacks
    /\ before_terminate_callbacks' = Append(before_terminate_callbacks, Callback)
    /\ UNCHANGED <<cfgVars, runVars, before_start_callbacks, after_start_callbacks,
                   after_terminate_callbacks, container, atexit_registered, rtVars, pc,
                   termCaller, lastOp, outcome, startLocals, termLocals, obs>>

\* register_after_start_callback
RegisterAfterStart ==
    /\ pc = "idle"
    /\ NumCallbacks < MaxCallbacks
    /\ after_start_callbacks' = Append(after_start_callbacks, Callback)
    /\ UNCHANGED <<cfgVars, runVars, before_start_callbacks, before_terminate_callbacks,
                   after_terminate_callbacks, container, atexit_registered, rtVars, pc,
                   termCaller, lastOp, outcome, startLocals, termLocals, obs>>

\* register_after_terminate_callback
RegisterAfterTerminate ==
    /\ pc = "idle"
    /\ NumCallbacks < MaxCallbacks
    /\ after_terminate_callbacks' = Append(after_terminate_callbacks, Callback)
    /\ UNCHANGED <<cfgVars, runVars, before_start_callbacks, after_start_callbacks,
                   before_terminate_callbacks, container, atexit_registered, rtVars, pc,
                   termCaller, lastOp, outcome, startLocals, termLocals, obs>>

\* ---------------------------------------------------------------- terminate
\* terminate, lines 217-230, entered from `caller` with call history o, conn being the
\* caller's `connectable`: atexit.unregister, the before-terminate callbacks,
\* stdout = stderr = None and the test `self.container is not None`. The caller reads
\* neither the clock nor the pending ports again before it restarts them, so both are
\* put back to their starting values.
EnterTerminate(caller, o, conn) ==
    /\ atexit_registered' = FALSE
    /\ \E r \in CallbackRuns(before_terminate_callbacks) :
         LET o1 == [o EXCEPT !.started = FALSE,
                             !.termBackend = FALSE,
                             !.termHeld = IF container # NoContainer /\ Exists(container.id)
                                          THEN container.id ELSE 0,
                             !.termReturned = FALSE,
                             !.afterRan = "na"]
         IN IF r.crashed
            THEN /\ EndOp(Raised("TypeError"))
                 /\ obs' = [o1 EXCEPT !.afterRan =
                               IF after_terminate_callbacks = <<>> THEN "all" ELSE "notall"]
            ELSE /\ pc' = IF container = NoContainer THEN "t_finally" ELSE "t_get"
                 /\ termCaller' = caller
                 /\ ResetTermLocals
                 /\ obs' = o1
                 /\ outcome' = NoOutcome
                 /\ connectable' = conn
                 /\ now' = 0
                 /\ pending' = {}
                 /\ UNCHANGED <<factory_started, start_attempts, timeout, current_attempt>>

\* terminate called by the user of the factory
TerminateCall ==
    /\ pc = "idle"
    /\ lastOp' = "terminate"
    /\ EnterTerminate("caller",
                      [NoObs EXCEPT !.again = (lastOp = "terminate" /\ outcome.kind = "result")],
                      None)
    /\ UNCHANGED <<cfgVars, runVars, cbVars, container, rtVars>>

\* line 231: container = self.docker_client.containers.get(self.container.id)
TermGet ==
    /\ pc = "t_get"
    /\ obs' = [obs EXCEPT !.termBackend = TRUE]
    /\ \E fault \in BOOLEAN :
         IF fault
         THEN /\ t_exc' = "APIError"
              /\ pc' = "t_finally"
              /\ UNCHANGED t_container
         ELSE IF ~Exists(container.id)
         THEN \* docker.errors.NotFound: caught by line 243
              /\ pc' = "t_finally"
              /\ UNCHANGED <<t_exc, t_container>>
         ELSE /\ t_container' = [id |-> container.id, status |-> rtStatus]
              /\ pc' = "t_logs"
              /\ UNCHANGED t_exc
    /\ UNCHANGED <<cfgVars, runVars, cbVars, container, atexit_registered, rtVars, termCaller, lastOp,
                   outcome, startLocals, stdout, stderr>>

\* lines 232-239 and 242: container.logs(...), the decoding, the test of container.status;
\* a container that is not running is not removed and the handle is cleared
TermLogs ==
    /\ pc = "t_logs"
    /\ \E fault \in BOOLEAN :
         IF fault
         THEN /\ t_exc' = "APIError"
              /\ pc' = "t_finally"
              /\ t_container' = NoContainer
              /\ UNCHANGED <<stdout, stderr, container, obs>>
         ELSE IF ~Exists(t_container.id)
         THEN /\ pc' = "t_finally"
              /\ t_container' = NoContainer
              /\ UNCHANGED <<t_exc, stdout, stderr, container, obs>>
         ELSE \E logs \in LogsResults :
                /\ stdout' = decode(logs[1])
                /\ stderr' = IF Len(logs) = 1 THEN stderr ELSE decode(logs[2])
                /\ obs' = [obs EXCEPT !.captured = TRUE]
                /\ IF HandleStatus(t_container) = "running"
                   THEN pc' = "t_remove" /\ UNCHANGED <<container, t_container>>
                   ELSE /\ pc' = "t_finally"
                        /\ container' = NoContainer
                        /\ t_container' = NoContainer
                /\ UNCHANGED t_exc
    /\ UNCHANGED <<cfgVars, runVars, cbVars, atexit_registered, rtVars, termCaller, lastOp,
                   outcome, startLocals>>

\* lines 240-242: container.remove(force=True); container.wait(); self.container = None
TermRemove ==
    /\ pc = "t_remove"
    /\ pc' = "t_finally"
    /\ t_container' = NoContainer
    /\ \E fault \in BOOLEAN :
         IF fault
         THEN t_exc' = "APIError" /\ UNCHANGED <<container, rtVars>>
         ELSE IF ~Exists(t_container.id)
         THEN UNCHANGED <<t_exc, container, rtVars>>
         ELSE /\ rtStatus' = "absent"
              /\ container' = NoContainer
              /\ UNCHANGED <<t_exc, rtId>>
    /\ UNCHANGED <<cfgVars, runVars, cbVars, atexit_registered, termCaller, lastOp, outcome,
                   startLocals, stdout, stderr, obs>>

\* lines 245-256: the finally block runs the after-terminate callbacks; then the pending
\* exception leaves terminate, or terminate returns ProcessResult(0, stdout, stderr) to
\* its caller: the user, or start at line 122, 177 or 195
TermFinally ==
    /\ pc = "t_finally"
    /\ \E r \in CallbackRuns(after_terminate_callbacks) :
         LET o1 == [obs EXCEPT !.afterRan = IF r.ran = Len(after_terminate_callbacks)
                                            THEN "all" ELSE "notall"]
             o2 == [o1 EXCEPT !.termReturned = TRUE]
         IN IF r.crashed
            THEN EndOp(Raised("TypeError")) /\ obs' = o1
            ELSE IF t_exc # None
            THEN EndOp(Raised(t_exc)) /\ obs' = o1
            ELSE /\ obs' = o2
                 /\ CASE termCaller = "caller" ->
                           EndOp(Outcome("result", 0, stdout, stderr, 0, ""))
                      [] termCaller = "ping" ->
                           \* line 123: pytest.fail(connectable)
                           EndOp(Outcome("Failed", 0, None, None, -1, connectable))
                      [] termCaller = "timeout" ->
                           \* line 177 is done: back to the test of the attempts loop
                           /\ pc' = "s_loop"
                           /\ termCaller' = "none"
                           /\ ResetTermLocals
                           /\ UNCHANGED <<outcome, startLocals>>
                      [] termCaller = "final" ->
                           \* lines 195-207
                           EndOp(Outcome("FactoryNotStarted", current_attempt - 1,
                                         stdout, stderr, 0, ""))
    /\ UNCHANGED <<cfgVars, runVars, cbVars, container, atexit_registered, rtVars, lastOp>>

\* ---------------------------------------------------------------- start
\* start(max_start_attempts=a, start_timeout=t), lines 107-119, called on a factory
\* that is not started; 0 stands for an argument left None. atexit.register, then the
\* before-start callbacks. The values of lines 126 and 134 depend on the arguments and
\* attributes alone and are fixed here.
StartCall ==
    /\ pc = "idle"
    /\ ~obs.started
    /\ lastOp' = "start"
    /\ \E a \in 0..MaxAttempts, t \in 0..MaxTimeout,
          r \in CallbackRuns(before_start_callbacks) :
         LET o == [NoObs EXCEPT !.configured = Or(a, max_start_attempts),
                                !.beforeStartRan =
                                    IF r.ran = Len(before_start_callbacks)
                                    THEN "all" ELSE "notall"]
         IN /\ atexit_registered' = TRUE
            /\ obs' = o
            /\ IF r.crashed
               THEN EndOp(Raised("TypeError"))
               ELSE /\ pc' = "s_ping"
                    /\ factory_started' = FALSE
                    /\ start_attempts' = Or(a, max_start_attempts)
                    /\ timeout' = Or(t, start_timeout)
                    /\ outcome' = NoOutcome
                    /\ UNCHANGED <<termCaller, connectable, current_attempt, now, pending,
                                   termLocals>>
    /\ UNCHANGED <<cfgVars, runVars, cbVars, container, rtVars>>

\* client_connectable, lines 284-290: True, or the reason the ping failed
client_connectable(ping) ==
    CASE ping = "true" -> "True"
      [] ping = "false" -> PingFalseReason
      [] OTHER -> PingErrorReason

\* lines 120-127: connectable = ContainerFactory.client_connectable(self.docker_client);
\* if connectable is not True: self.terminate(); pytest.fail(connectable)
Ping ==
    /\ pc = "s_ping"
    /\ \E ping \in {"true", "false", "raises"} :
         LET c == client_connectable(ping)
             o == [obs EXCEPT !.pings = @ + 1, !.reason = IF c = "True" THEN None ELSE c]
         IN IF c # "True"
            THEN EnterTerminate("ping", o, c)
            ELSE /\ connectable' = c
                 /\ pc' = "s_loop"
                 /\ current_attempt' = 0
                 /\ obs' = o
                 /\ UNCHANGED <<atexit_registered, termCaller, outcome, factory_started,
                                start_attempts, timeout, now, pending, termLocals>>
    /\ UNCHANGED <<cfgVars, runVars, cbVars, container, rtVars, lastOp>>

\* lines 128-143: the test of the attempts loop, current_attempt += 1 and
\* self.container = self.docker_client.containers.run(...); the backend refuses the
\* name while a container carrying it exists (409 Conflict).
\* lines 130-131 and 178-207: once started, or with the attempts used up, the loop is
\* left: started, the after-start callbacks run and start returns True; else the last
\* terminate is called, whose result FactoryNotStarted carries.
LoopHead ==
    /\ pc = "s_loop"
    /\ IF current_attempt <= start_attempts /\ ~factory_started
       THEN /\ \E fault \in BOOLEAN :
                 IF fault
                 THEN /\ EndOp(Raised("APIError"))
                      /\ UNCHANGED <<container, rtVars, obs>>
                 ELSE IF rtStatus # "absent"
                 THEN /\ EndOp(Outcome("Conflict", current_attempt + 1, None, None, -1, ""))
                      /\ UNCHANGED <<container, rtVars, obs>>
                 ELSE /\ current_attempt' = current_attempt + 1
                      /\ now' = 0
                      /\ rtStatus' = "created"
                      /\ rtId' = FreshId
                      /\ container' = [id |-> FreshId, status |-> "created"]
                      /\ pc' = "s_poll"
                      /\ obs' = [obs EXCEPT !.creates = @ + 1, !.portsSeen = {},
                                            !.sawRunning = FALSE, !.termBackend = FALSE,
                                            !.termHeld = 0, !.termReturned = FALSE,
                                            !.afterRan = "na"]
                      /\ UNCHANGED <<termCaller, outcome, factory_started, connectable,
                                     start_attempts, timeout, pending, termLocals>>
            /\ UNCHANGED atexit_registered
       ELSE IF factory_started
       THEN \E r \in CallbackRuns(after_start_callbacks) :
                 /\ IF r.crashed
                    THEN /\ EndOp(Raised("TypeError"))
                         /\ obs' = [obs EXCEPT !.afterStartRan =
                                        IF r.ran = Len(after_start_callbacks)
                                        THEN "all" ELSE "notall"]
                    ELSE /\ EndOp(Outcome("success", 0, None, None, -1, ""))
                         /\ obs' = [obs EXCEPT !.started = TRUE, !.afterStartRan = "all"]
                 /\ UNCHANGED <<container, rtVars, atexit_registered>>
       ELSE /\ EnterTerminate("final", obs, connectable)
            /\ UNCHANGED <<container, rtVars>>
    /\ UNCHANGED <<cfgVars, runVars, cbVars, lastOp>>

\* lines 144-154 and 175-177: the test of the poll loop, containers.get, the sleep while
\* the container is not running, the replacement of a stale self.container; past the
\* deadline, the else branch calls terminate
Poll ==
    /\ pc = "s_poll"
    /\ IF now <= timeout
       THEN \E fault \in BOOLEAN :
              IF fault \/ ~Exists(container.id)
              THEN /\ EndOp(Raised(IF fault THEN "APIError" ELSE "NotFound"))
                   /\ UNCHANGED <<container, atexit_registered, obs>>
              ELSE IF rtStatus # "running"
              THEN \* time.sleep(0.25); continue
                   /\ now' = Min(now + 1, timeout + 1)
                   /\ UNCHANGED <<container, atexit_registered, pc, termCaller, outcome,
                                  factory_started, connectable, start_attempts, timeout,
                                  current_attempt, pending, termLocals, obs>>
              ELSE /\ container' = IF HandleStatus(container) # "running"
                                   THEN [id |-> container.id, status |-> rtStatus]
                                   ELSE container
                   /\ pc' = "s_running"
                   /\ UNCHANGED <<atexit_registered, termCaller, outcome, startLocals,
                                  termLocals, obs>>
       ELSE /\ EnterTerminate("timeout",
                              [obs EXCEPT !.failed = @ + 1, !.portsSeen = {},
                                          !.sawRunning = FALSE],
                              connectable)
            /\ UNCHANGED container
    /\ UNCHANGED <<cfgVars, runVars, cbVars, rtVars, lastOp>>

\* the double check without the removal: a container found not running is left alone
\* and polled again until the deadline
DoubleCheck_KeepPolling ==
    /\ pc = "s_running"
    /\ IF ~is_running
       THEN /\ pc' = "s_poll"
            /\ now' = Min(now + 1, timeout + 1)
            /\ UNCHANGED <<container, rtVars, termCaller, outcome, factory_started,
                           connectable, start_attempts, timeout, current_attempt, pending,
                           termLocals, obs>>
       ELSE LET ports == Range(get_check_ports(check_ports))
            IN /\ obs' = [obs EXCEPT !.sawRunning = TRUE, !.portsSeen = {}]
               /\ IF ports = {}
                  THEN factory_started' = TRUE /\ pc' = "s_loop" /\ UNCHANGED pending
                  ELSE pending' = ports /\ pc' = "c_loop" /\ UNCHANGED factory_started
               /\ UNCHANGED <<container, rtVars, termCaller, outcome, connectable,
                              start_attempts, timeout, current_attempt, now, termLocals>>
    /\ UNCHANGED <<cfgVars, runVars, cbVars, atexit_registered, lastOp>>

\* lines 156-164: if not self.is_running(): self.container.remove(force=True);
\* self.container.wait(); self.container = None; break. Else run_start_checks is called,
\* lines 293-295: with no port to check it returns True at once (lines 173-174 follow)
DoubleCheck ==
    /\ pc = "s_running"
    /\ IF ~is_running
       THEN \E fault \in BOOLEAN :
              IF fault \/ ~Exists(container.id)
              THEN /\ EndOp(Raised(IF fault THEN "APIError" ELSE "NotFound"))
                   /\ UNCHANGED <<container, rtVars, obs>>
              ELSE /\ rtStatus' = "absent"
                   /\ container' = NoContainer
                   /\ pc' = "s_loop"
                   /\ obs' = [obs EXCEPT !.failed = @ + 1]
                   /\ UNCHANGED <<rtId, termCaller, outcome, startLocals, termLocals>>
       ELSE LET ports == Range(get_check_ports(check_ports))
            IN /\ obs' = [obs EXCEPT !.sawRunning = TRUE, !.portsSeen = {}]
               /\ IF ports = {}
                  THEN factory_started' = TRUE /\ pc' = "s_loop" /\ UNCHANGED pending
                  ELSE pending' = ports /\ pc' = "c_loop" /\ UNCHANGED factory_started
               /\ UNCHANGED <<container, rtVars, termCaller, outcome, connectable,
                              start_attempts, timeout, current_attempt, now, termLocals>>
    /\ UNCHANGED <<cfgVars, runVars, cbVars, atexit_registered, lastOp>>

\* run_start_checks without its port probe (line 303 breaking at once): True as soon as
\* the container runs, whatever ports are still to check
ChecksPass_NoProbe(left) ==
    IF now <= timeout /\ is_running THEN "True" ELSE "False"

\* run_start_checks with `while True` for `while time.time() <= timeout_at`
ChecksPass_NoDeadline(left) ==
    IF is_running /\ left # {} THEN "probe"
    ELSE IF is_running THEN "True"
    ELSE "False"

\* what one pass of the loop of run_start_checks (lines 297-307) does, `left` being the
\* ports still to check: probe them, or end the call with True or False
ChecksPass(left) ==
    IF now <= timeout /\ is_running /\ left # {} THEN "probe"
    ELSE IF now <= timeout /\ is_running THEN "True"
    ELSE "False"

\* run_start_checks whose False ends the attempt: start goes on as if the deadline had
\* passed and calls terminate
RunStartChecks_GiveUp ==
    /\ pc = "c_loop"
    /\ LET pass == ChecksPass(pending)
       IN IF pass = "probe"
          THEN \E got \in SUBSET pending :
                 /\ pending' = pending \ got
                 /\ obs' = [obs EXCEPT !.probed = TRUE, !.portsSeen = @ \cup got]
                 /\ UNCHANGED <<pc, factory_started, now, atexit_registered, termCaller,
                                outcome, connectable, start_attempts, timeout,
                                current_attempt, termLocals>>
          ELSE IF pass = "True"
          THEN /\ factory_started' = TRUE
               /\ pc' = "s_loop"
               /\ UNCHANGED <<pending, now, obs, atexit_registered, termCaller, outcome,
                              connectable, start_attempts, timeout, current_attempt,
                              termLocals>>
          ELSE EnterTerminate("timeout", [obs EXCEPT !.failed = @ + 1], connectable)
    /\ UNCHANGED <<cfgVars, runVars, cbVars, container, rtVars, lastOp>>

\* run_start_checks, lines 297-307: one pass of its loop, `got` being what
\* ports.get_connectable_ports answers; False sends start to its sleep(1) and continue
\* (lines 165-166), True to lines 173-174
RunStartChecks ==
    /\ pc = "c_loop"
    /\ LET pass == ChecksPass(pending)
       IN IF pass = "probe"
          THEN \E got \in SUBSET pending :
                 /\ pending' = pending \ got
                 /\ obs' = [obs EXCEPT !.probed = TRUE, !.portsSeen = @ \cup got]
                 /\ UNCHANGED <<pc, factory_started, now>>
          ELSE IF pass = "True"
          THEN /\ factory_started' = TRUE
               /\ pc' = "s_loop"
               /\ UNCHANGED <<pending, now, obs>>
          ELSE /\ pc' = "s_poll"
               /\ pending' = {}
               /\ now' = Min(now + 1, timeout + 1)
               /\ UNCHANGED <<factory_started, obs>>
    /\ UNCHANGED <<cfgVars, runVars, cbVars, container, atexit_registered, rtVars, termCaller, lastOp,
                   outcome, connectable, start_attempts, timeout, current_attempt,
                   termLocals>>

\* ---------------------------------------------------------------- scoped use
\* __enter__, lines 309-316: `if not self.is_running(): raise RuntimeError(...)`, else
\* return self. is_running reads self.container.status (line 265), which raises
\* AttributeError while self.container is None.
Enter ==
    /\ pc = "idle"
    /\ lastOp' = "enter"
    /\ outcome' = IF container = NoContainer THEN Raised("AttributeError")
                  ELSE IF ~is_running THEN Raised("RuntimeError")
                  ELSE Outcome("entered", 0, None, None, -1, "")
    /\ UNCHANGED <<cfgVars, runVars, cbVars, container, atexit_registered, rtVars, pc, termCaller,
                   startLocals, termLocals, obs>>

\* ---------------------------------------------------------------- run
\* run(*cmd), lines 267-281: ret = self.container.exec_run(cmd, demux=True), which raises
\* AttributeError while self.container is None; else ProcessResult(exitcode, stdout,
\* stderr) made of what exec_run returned
Run ==
    /\ pc = "idle"
    /\ run_result = NoResult
    /\ run_result' = IF container = NoContainer
                     THEN [kind |-> "AttributeError", exitcode |-> 0, stdout |-> None,
                           stderr |-> None]
                     ELSE run(exec_ret)
    /\ UNCHANGED <<cfgVars, exec_ret, cbVars, container, atexit_registered, rtVars, pc,
                   termCaller, lastOp, outcome, startLocals, termLocals, obs>>

\* ---------------------------------------------------------------- environment
\* time passes while start polls
Tick ==
    /\ pc \in {"s_poll", "s_running", "c_loop"}
    /\ now <= timeout
    /\ now' = now + 1
    /\ UNCHANGED <<cfgVars, runVars, cbVars, container, atexit_registered, rtVars, pc, termCaller,
                   lastOp, outcome, factory_started, connectable, start_attempts,
                   timeout, current_attempt, pending, termLocals, obs>>

\* the container changes by itself: it comes up, it exits, or it is removed from outside
\* the factory (auto-remove, docker rm)
RuntimeStep ==
    /\ rtStatus # "absent"
    /\ \/ rtStatus = "created" /\ rtStatus' \in {"running", "exited"}
       \/ rtStatus = "running" /\ rtStatus' = "exited"
       \/ rtStatus' = "absent"
    /\ UNCHANGED <<cfgVars, runVars, cbVars, container, atexit_registered, rtId, pc, termCaller,
                   lastOp, outcome, startLocals, termLocals, obs>>

Next ==
    \/ RegisterBeforeStart
    \/ RegisterBeforeTerminate
    \/ RegisterAfterStart
    \/ RegisterAfterTerminate
    \/ StartCall
    \/ Ping
    \/ LoopHead
    \/ Poll
    \/ DoubleCheck
    \/ RunStartChecks
    \/ TerminateCall
    \/ TermGet
    \/ TermLogs
    \/ TermRemove
    \/ TermFinally
    \/ Tick
    \/ RuntimeStep

Spec == Init /\ [][Next]_vars

\* ---------------------------------------------------------------- fairness
\* start and terminate on a factory on which no callback is registered (a callback is
\* called within one step and is taken to return, so it adds nothing to how long a
\* method runs)
NextLifecycle ==
    \/ StartCall
    \/ Ping
    \/ LoopHead
    \/ Poll
    \/ DoubleCheck
    \/ RunStartChecks
    \/ TerminateCall
    \/ TermGet
    \/ TermLogs
    \/ TermRemove
    \/ TermFinally
    \/ Tick
    \/ RuntimeStep

\* A method that was called runs on: each of its steps is taken once it can be (every
\* backend call returns), and time.time() advances while start polls. Of the readiness
\* loop only the pass that leaves it is given fairness, so that the port probe is free
\* to report nothing for ever.
ChecksLeave == RunStartChecks /\ pc' # "c_loop"

FairSpec ==
    /\ Init
    /\ [][NextLifecycle]_vars
    /\ WF_vars(Ping)
    /\ WF_vars(LoopHead)
    /\ WF_vars(Poll)
    /\ WF_vars(DoubleCheck)
    /\ WF_vars(ChecksLeave)
    /\ WF_vars(TermGet)
    /\ WF_vars(TermLogs)
    /\ WF_vars(TermRemove)
    /\ WF_vars(TermFinally)
    /\ WF_vars(Tick)

\* ---------------------------------------------------------------- use of a factory at rest
\* the factory as a start that succeeded on its first attempt leaves it: the container
\* runs, self.container is its handle (the one containers.run returned if handles are
\* live views, else the one line 154 stored)
StartedFactory ==
    /\ check_ports \in CheckPortsChoices
    /\ max_start_attempts = MaxAttempts
    /\ start_timeout = MaxTimeout
    /\ liveStatus \in BOOLEAN
    /\ before_start_callbacks = <<>>
    /\ after_start_callbacks = <<>>
    /\ before_terminate_callbacks = <<>>
    /\ after_terminate_callbacks = <<>>
    /\ container = [id |-> FreshId, status |-> IF liveStatus THEN "created" ELSE "running"]
    /\ atexit_registered = TRUE
    /\ rtStatus = "running"
    /\ rtId = FreshId
    /\ pc = "idle"
    /\ termCaller = "none"
    /\ lastOp = "start"
    /\ outcome = Outcome("success", 0, None, None, -1, "")
    /\ factory_started = FALSE
    /\ connectable = None
    /\ start_attempts = 0
    /\ timeout = 0
    /\ current_attempt = 0
    /\ now = 0
    /\ pending = {}
    /\ stdout = None
    /\ stderr = None
    /\ t_container = NoContainer
    /\ t_exc = None
    /\ obs = [NoObs EXCEPT !.configured = MaxAttempts, !.pings = 1, !.creates = 1,
                           !.sawRunning = TRUE, !.started = TRUE,
                           !.beforeStartRan = "all", !.afterStartRan = "all",
                           !.probed = (get_check_ports(check_ports) # <<>>),
                           !.portsSeen = Range(get_check_ports(check_ports))]

\* a factory, fresh or started, and what exec_run is going to return
InitRun ==
    /\ FreshFactory \/ StartedFactory
    /\ exec_ret \in ExecResults
    /\ run_result = NoResult

\* __enter__ and run on it, while the container lives on or exits
NextRun ==
    \/ Enter
    \/ Run
    \/ RuntimeStep

SpecRun == InitRun /\ [][NextRun]_vars

\* ---------------------------------------------------------------- properties
\* the ports run_start_checks has to see connectable
CheckedPorts == Range(get_check_ports(check_ports))

StartEnded == pc = "idle" /\ lastOp = "start"

StartSucceeded == StartEnded /\ outcome.kind = "success"

\* C1: with check ports configured, start marks the factory started and returns True
\* only when, in the attempt that succeeded, is_running() held and the port probe
\* reported every configured port connectable.
C1_SuccessOnlyWhenReady ==
    (CheckedPorts # {} /\ (factory_started \/ StartSucceeded))
        => (obs.sawRunning /\ obs.portsSeen = CheckedPorts)

\* a start with MaxPorts check ports that succeeded after its first attempt had failed
C1_Witness ==
    /\ StartSucceeded
    /\ Cardinality(CheckedPorts) = MaxPorts
    /\ obs.portsSeen = CheckedPorts
    /\ obs.creates = 2

\* C2: from a successful return of start until terminate is called, self.terminate is
\* registered with atexit.
C2_ExitHookWhileStarted == obs.started => atexit_registered

\* C3 (for a factory with no callbacks, the first call having returned): after two
\* terminate calls in a row the second has made no backend call, has not raised and has
\* returned stdout = stderr = None.
C3_SecondTerminateIdle ==
    (pc = "idle" /\ lastOp = "terminate" /\ obs.again /\ NumCallbacks = 0)
        => /\ ~obs.termBackend
           /\ outcome.kind = "result"
           /\ outcome.stdout = None
           /\ outcome.stderr = None

\* C4: a start call makes at most the configured number of attempts, and the attempts
\* count FactoryNotStarted reports is the configured one.
C4_AttemptsAsConfigured ==
    /\ lastOp = "start" => obs.creates <= obs.configured
    /\ (StartEnded /\ outcome.kind = "FactoryNotStarted")
           => outcome.attempts = obs.configured

\* C5: when start raises FactoryNotStarted and a terminate of that call read the
\* container's logs, the error carries captured output.
C5_ErrorCarriesOutput ==
    (StartEnded /\ outcome.kind = "FactoryNotStarted" /\ obs.captured)
        => (outcome.stdout # None \/ outcome.stderr # None)

\* C6: once terminate has returned, the container it held a handle to when called is
\* gone from the backend, and no attempt after the first is refused its name.
C6_TeardownClean ==
    /\ (obs.termReturned /\ obs.termHeld # 0) => ~Exists(obs.termHeld)
    /\ ~(StartEnded /\ outcome.kind = "Conflict" /\ outcome.attempts >= 2)

\* C7 (for a factory with no callbacks): when the ping does not answer True, start has
\* pinged once, created nothing, unregistered the exit hook, and fails with the reason
\* client_connectable gave.
C7_UnreachableFailsWithReason ==
    (StartEnded /\ obs.reason # None /\ NumCallbacks = 0)
        => /\ obs.pings = 1
           /\ obs.creates = 0
           /\ ~atexit_registered
           /\ outcome.kind = "Failed"
           /\ outcome.msg = obs.reason

\* C8: no call of start or terminate ends with an exception that arose from a callback
\* that raised.
C8_CallbackFailureNotFatal == outcome.kind # "TypeError"

\* C9: every call of terminate that has ended, by return or by an exception, has called
\* every registered after-terminate callback.
C9_AfterTerminateAlwaysRun == obs.afterRan # "notall"

\* C10: with no check ports, the port probe is never called, and a start call in whose
\* last attempt is_running() held has returned True.
C10_NoPortsImmediate ==
    CheckedPorts = {}
        => /\ ~obs.probed
           /\ (StartEnded /\ obs.sawRunning) => outcome.kind = "success"

\* C11: __enter__ on a factory that is not running, be it never started or terminated
\* (self.container is None) or holding a handle whose status is not "running" (a
\* snapshot, which stays as it was when __enter__ read it), has raised the RuntimeError
\* "Factory not yet started".
C11_EnterNotRunningFails ==
    (pc = "idle" /\ lastOp = "enter"
       /\ (container = NoContainer \/ (~liveStatus /\ ~is_running)))
        => outcome.kind = "RuntimeError"

\* C12: the result of run carries the exit code exec_run returned; its stdout is the
\* decoded stdout stream, or None when exec_run gave no output or no stdout stream, and
\* so is its stderr with the stderr stream; no missing stream turns into "".
C12_RunResultMatchesExec ==
    run_result.kind = "ProcessResult" =>
        /\ run_result.exitcode = exec_ret.exit_code
        /\ run_result.stdout = (IF exec_ret.out = None THEN None ELSE decode(exec_ret.out))
        /\ run_result.stderr = (IF exec_ret.err = None THEN None ELSE decode(exec_ret.err))

\* run has returned stdout but no stderr for a command that wrote to stdout alone
C12_Witness ==
    /\ run_result.kind = "ProcessResult"
    /\ exec_ret.exit_code = MaxExit
    /\ exec_ret.out = "b:out" /\ exec_ret.err = None
    /\ run_result.stdout = "out" /\ run_result.stderr = None

\* C13: when run_start_checks has returned False, start neither creates a container nor
\* calls terminate: it keeps its container, its deadline and its attempt number and
\* goes back to polling, and it goes on polling so for as long as the deadline has not
\* passed (a backend call that raises aside).
C13_FailedChecksKeepAttempt ==
    [][LET failedChecks == pc = "c_loop" /\ pc' = "s_poll"
           pollsOn == pc = "s_poll" /\ obs.sawRunning /\ now <= timeout /\ pc' # "idle"
           checksOver == pc = "c_loop" /\ ChecksPass(pending) = "False"
       IN /\ (checksOver /\ pc' # pc) => pc' = "s_poll"
          /\ (failedChecks \/ pollsOn) =>
                /\ pc' \in {"s_poll", "s_running"}
                /\ container'.id = container.id
                /\ timeout' = timeout
                /\ current_attempt' = current_attempt
                /\ obs'.creates = obs.creates
                /\ obs'.failed = obs.failed
                /\ atexit_registered' = atexit_registered]_vars

\* run_start_checks has returned False before the deadline and start is polling again
C13_Witness ==
    /\ pc = "s_poll"
    /\ obs.sawRunning
    /\ now <= timeout
    /\ CheckedPorts # {}
    /\ container # NoContainer

\* C14: an attempt that timed out is followed by one terminate and then, while attempts
\* remain, by the next containers.run, which the backend accepts: no start call in which
\* an attempt has failed ends because the next containers.run was refused the name.
C14_TimeoutThenNextAttempt ==
    /\ (pc = "s_loop" /\ obs.termReturned) => obs.failed >= 1
    /\ ~(StartEnded /\ obs.failed >= 1 /\ outcome.kind = "Conflict")

\* C15: when the double check of line 157 finds self.container not running and the
\* container is still there to be removed, start removes it, clears self.container and
\* leaves the poll loop in that same step, whatever the clock says; the step that
\* follows, with an attempt left, is the next containers.run.
C15_FlappedEndsAttempt ==
    [][LET flapped == pc = "s_running" /\ ~is_running /\ pc' \notin {"s_running", "idle"}
           afterFlap == pc = "s_loop" /\ container = NoContainer /\ ~factory_started
                        /\ current_attempt <= start_attempts /\ ~obs.termReturned
                        /\ obs.failed >= 1 /\ pc' \notin {"s_loop", "idle"}
       IN /\ flapped =>
                /\ pc' = "s_loop"
                /\ container' = NoContainer
                /\ rtStatus' = "absent"
                /\ now' = now
                /\ current_attempt' = current_attempt
                /\ obs'.failed = obs.failed + 1
                /\ atexit_registered' = atexit_registered
          /\ afterFlap =>
                /\ pc' = "s_poll"
                /\ obs'.creates = obs.creates + 1
                /\ container' # NoContainer
                /\ current_attempt' = current_attempt + 1]_vars

\* a flapped container was removed before the deadline and the next attempt has begun
C15_Witness ==
    /\ pc = "s_poll"
    /\ liveStatus
    /\ obs.failed = 1
    /\ obs.creates = 2
    /\ ~obs.captured
    /\ atexit_registered

\* C16: a start call has called every before-start callback before it pings or creates
\* anything, a start that returned True has called every after-start callback, a start
\* that failed has called none, and no callback list is left before its last callback
\* was called.
C16_CallbacksAllRunInPlace ==
    /\ obs.beforeStartRan # "notall"
    /\ obs.afterStartRan # "notall"
    /\ (obs.pings > 0 \/ obs.creates > 0) => obs.beforeStartRan = "all"
    /\ StartSucceeded => obs.afterStartRan = "all"
    /\ (StartEnded /\ outcome.kind # "success") => obs.afterStartRan = "na"

\* C17: every start call ends: once start is running it comes to return or to raise,
\* and it never makes more than one containers.run call beyond the configured attempts.
C17_StartEnds ==
    /\ (lastOp = "start" /\ pc # "idle") ~> (pc = "idle")
    /\ [](lastOp = "start" => obs.creates <= obs.configured + 1)

\* a start call that used up all its attempts, polling to each deadline, and ended
C17_Witness ==
    /\ StartEnded
    /\ outcome.kind = "FactoryNotStarted"
    /\ obs.failed = obs.creates
    /\ obs.creates > MaxAttempts

\* C18: once terminate has returned, self.container is None, and the result terminate
\* hands to its caller has exitcode 0.
C18_NoHandleAfterTerminate ==
    /\ obs.termReturned => container = NoContainer
    /\ outcome.kind = "result" => outcome.exitcode = 0

\* C19: the attempts count FactoryNotStarted reports is the number of containers.run
\* calls the start call has made.
C19_ReportedAttemptsAreCreates ==
    (StartEnded /\ outcome.kind = "FactoryNotStarted") => outcome.attempts = obs.creates

\* C20: with handles that are status snapshots, self.container reports running at the
\* double check of line 157 and at every running check of run_start_checks, whatever
\* has become of the container since: the removal of lines 158-161 is never reached and
\* line 298 never makes run_start_checks return False.
C20_SnapshotNeverFlaps ==
    (~liveStatus /\ pc \in {"s_running", "c_loop"}) => is_running

\* the readiness loop runs on a snapshot handle while the container has exited
C20_Witness ==
    /\ ~liveStatus
    /\ pc = "c_loop"
    /\ rtStatus = "exited"
    /\ container.status = "running"

====
